---- MODULE Spec2Model ----
(***************************************************************************)
(* Server side of the pseudonym-system protocol suite of emmy: the three   *)
(* stream handlers PseudonymsysGenerateNym, PseudonymsysIssueCredential    *)
(* and PseudonymsysTransferCredential, one session at a time.  The         *)
(* handlers are translated statement by statement; the organization roles  *)
(* (package crypto/pseudonymsys), the stream wrappers send/receive and the *)
(* configuration loaders are not part of the sources at hand and follow    *)
(* the written specification, instantiated in the toy group p = 23, g = 2, *)
(* q = 11.                                                                 *)
(***************************************************************************)
EXTENDS Integers, Sequences, FiniteSets, TLC

\* ------------------------------------------------------------------------
\* Bounds of the model
\* ------------------------------------------------------------------------
\* largest exponent a client sends as z (covers Z_q and the range q..2q-1)
MaxZ == 21
\* largest nonce gamma1, gamma2 the issuer draws in round 2
MaxGamma == 7
\* largest nonce r1 the issuer draws in round 2
MaxR == 0
\* largest challenge c1, c2 a client sends in issuance round 3
MaxChal == 5
\* largest randomization exponent of a presented credential
MaxCredGamma == 2
\* largest response z a client sends while two sessions run
MaxConcZ == 1

\* ------------------------------------------------------------------------
\* L0: group and parameter store (toy bundle)
\* ------------------------------------------------------------------------
P == 23
G == 2
Q == 11

Zq == 0 .. (Q - 1)

\* ------------------------------------------------------------------------
\* L1: big-integer arithmetic and wire encoding
\* ------------------------------------------------------------------------
RECURSIVE ModExp(_, _, _)
ModExp(b, e, n) ==
    IF e = 0 THEN 1 % n
    ELSE LET h == ModExp(b, e \div 2, n)
             s == (h * h) % n
         IN IF e % 2 = 1 THEN (s * b) % n ELSE s

\* big.Int.Bytes: big-endian, minimal; zero is the empty string
RECURSIVE Bytes(_)
Bytes(n) == IF n = 0 THEN << >> ELSE Append(Bytes(n \div 256), n % 256)

\* big.Int.SetBytes: big-endian, leading zeros stripped, empty is zero
RECURSIVE SetBytes(_)
SetBytes(s) ==
    IF Len(s) = 0 THEN 0
    ELSE 256 * SetBytes(SubSeq(s, 1, Len(s) - 1)) + s[Len(s)]

\* stand-in for SHA-256 over the length-prefixed operands, mapped into
\* Z_q \ {0}
RECURSIVE WeightedSum(_, _)
WeightedSum(s, k) ==
    IF Len(s) = 0 THEN 0 ELSE k * s[1] + WeightedSum(Tail(s), k + 2)

Hash(s) == 1 + (WeightedSum(s, 1) % (Q - 1))

\* ------------------------------------------------------------------------
\* L0: configuration store
\* ------------------------------------------------------------------------
OrgNames == {"org1", "org2"}

\* pseudonymsys.orgs.<name>.secrets.dlog -> (s1, s2)
LoadPseudonymsysOrgSecrets(name) ==
    IF name = "org1" THEN [s1 |-> 3, s2 |-> 6] ELSE [s1 |-> 4, s2 |-> 9]

\* pseudonymsys.orgs.<name>.pubkeys -> (h1, h2) = (g^s1, g^s2)
LoadPseudonymsysOrgPubKeys(name) ==
    [h1 |-> ModExp(G, LoadPseudonymsysOrgSecrets(name).s1, P),
     h2 |-> ModExp(G, LoadPseudonymsysOrgSecrets(name).s2, P)]

\* secret key of the certification authority (never held by the server)
CASecret == [sk |-> 7]

\* pseudonymsys.ca.pubkey -> (a_CA, b_CA) with b_CA = a_CA^sk
LoadPseudonymsysCAPubKey == [a |-> G, b |-> ModExp(G, CASecret.sk, P)]

\* ------------------------------------------------------------------------
\* L2: sigma-protocol kernels
\* ------------------------------------------------------------------------
\* Schnorr single-exponent check: g^z = x * t^c (mod p)
SchnorrCheck(g, t, x, c, z) ==
    ModExp(g, z, P) = (x * ModExp(t, c, P)) % P

\* two-exponent Schnorr check: both equations must hold
TwoExpCheck(g1, y1, g2, y2, x1, x2, c, z) ==
    /\ ModExp(g1, z, P) = (x1 * ModExp(y1, c, P)) % P
    /\ ModExp(g2, z, P) = (x2 * ModExp(y2, c, P)) % P

\* DL-EQ transcript (A, B, Hash, zAlpha) for log_g1 y1 = log_g2 y2
DLEQProve(g1, y1, g2, y2, secret, alpha) ==
    LET A == ModExp(g1, alpha, P)
        B == ModExp(g2, alpha, P)
        h == Hash(<<g1, y1, g2, y2, A, B>>)
    IN [A |-> A, B |-> B, Hash |-> h, ZAlpha |-> (alpha + h * secret) % Q]

\* verification recomputes the challenge from bases, claims and (A, B)
DLEQVerify(t, g1, y1, g2, y2) ==
    LET h == Hash(<<g1, y1, g2, y2, t[1], t[2]>>)
    IN /\ ModExp(g1, t[4], P) = (t[1] * ModExp(y1, h, P)) % P
       /\ ModExp(g2, t[4], P) = (t[2] * ModExp(y2, h, P)) % P

\* Schnorr signature of the CA over H(nymA || nymB)
CASign(nymA, nymB, k) ==
    [r |-> ModExp(LoadPseudonymsysCAPubKey.a, k, P),
     s |-> (k + Hash(<<nymA, nymB>>) * CASecret.sk) % Q]

CAVerify(ca, nymA, nymB, r, s) ==
    ModExp(ca.a, s, P) = (r * ModExp(ca.b, Hash(<<nymA, nymB>>), P)) % P

\* ------------------------------------------------------------------------
\* L3: organization roles.  A role is a record; "seeded" tells whether its
\* challenge step completed.  The fields of a role whose challenge step did
\* not complete were never assigned: a method reading them either
\* dereferences an absent integer (run-time panic) or reads the zero value.
\* ------------------------------------------------------------------------
NewOrgNymGen(ca) ==
    [kind |-> "NymGen", seeded |-> FALSE, ca |-> ca,
     g1 |-> 0, y1 |-> 0, g2 |-> 0, y2 |-> 0, x1 |-> 0, x2 |-> 0, c |-> 0]

\* NymGen.GetChallenge step 1: the CA signature on (nymA, nymB)
NymGenSignatureValid(org, nymA, nymB, r, s) == CAVerify(org.ca, nymA, nymB, r, s)

\* NymGen.GetChallenge steps 2-4 with the sampled challenge c
NymGenGetChallenge(org, nymA, blindedA, nymB, blindedB, x1, x2, c) ==
    [org EXCEPT !.seeded = TRUE, !.g1 = nymA, !.y1 = nymB,
                !.g2 = blindedA, !.y2 = blindedB,
                !.x1 = x1, !.x2 = x2, !.c = c]

NymGenVerify(org, z) ==
    TwoExpCheck(org.g1, org.y1, org.g2, org.y2, org.x1, org.x2, org.c, z)

\* outcomes of NymGen.Verify(z): "true", "false" or "panic"
NymGenVerifyOutcomes(org, z) ==
    IF org.seeded
    THEN {IF NymGenVerify(org, z) THEN "true" ELSE "false"}
    ELSE {"panic", IF NymGenVerify(org, z) THEN "true" ELSE "false"}

NewOrgCredentialIssuer(s1, s2) ==
    [kind |-> "CredentialIssuer", seeded |-> FALSE, issued |-> FALSE,
     s1 |-> s1, s2 |-> s2,
     a |-> 0, b |-> 0, x |-> 0, c |-> 0, gamma1 |-> 0, gamma2 |-> 0]

IssuerGetAuthenticationChallenge(org, a, b, x, c) ==
    [org EXCEPT !.seeded = TRUE, !.a = a, !.b = b, !.x = x, !.c = c]

\* round 1 check of the issuer: a^z = x * b^c (mod p)
IssuerAuthenticated(org, z) == SchnorrCheck(org.a, org.b, org.x, org.c, z)

\* round 2: issued elements for nonces r1, gamma1, gamma2
IssuerIssue(org, r1, gamma1, gamma2) ==
    LET h1 == ModExp(G, org.s1, P)
        h2 == ModExp(G, org.s2, P)
    IN [x11 |-> ModExp(G, gamma1, P), x12 |-> ModExp(h1, gamma1, P),
        x21 |-> ModExp(G, gamma2, P), x22 |-> ModExp(h2, gamma2, P),
        A |-> (ModExp(org.a, org.s2, P) * ModExp(G, r1, P)) % P,
        B |-> (ModExp(org.b, org.s2, P) * ModExp(h1, r1, P)) % P]

\* round 3: (z1, z2) = (gamma1 + c1*s1 mod q, gamma2 + c2*s2 mod q)
IssuerGetEqualityProofData(org, c1, c2) ==
    [z1 |-> (org.gamma1 + c1 * org.s1) % Q,
     z2 |-> (org.gamma2 + c2 * org.s2) % Q]

\* outcomes of CredentialIssuer.GetEqualityProofData(c1, c2): the pair, or
\* "panic" when round 2 never drew gamma1, gamma2
IssuerEqualityProofOutcomes(org, c1, c2) ==
    LET zs == IssuerGetEqualityProofData(org, c1, c2)
    IN IF org.issued
       THEN {[panic |-> FALSE, z1 |-> zs.z1, z2 |-> zs.z2]}
       ELSE {[panic |-> TRUE, z1 |-> 0, z2 |-> 0],
             [panic |-> FALSE, z1 |-> zs.z1, z2 |-> zs.z2]}

NewOrgCredentialVerifier(s1, s2) ==
    [kind |-> "CredentialVerifier", seeded |-> FALSE, s1 |-> s1, s2 |-> s2,
     g1 |-> 0, y1 |-> 0, g2 |-> 0, y2 |-> 0, x1 |-> 0, x2 |-> 0, c |-> 0]

VerifierGetAuthenticationChallenge(org, nymA, nymB, aG, bG, x1, x2, c) ==
    [org EXCEPT !.seeded = TRUE, !.g1 = nymA, !.y1 = nymB,
                !.g2 = aG, !.y2 = bG, !.x1 = x1, !.x2 = x2, !.c = c]

\* step 1: two-exponent check; step 2: both DL-EQ transcripts against the
\* issuer's public keys; the result is the conjunction
VerifierVerifyAuthentication(org, z, cred, keys) ==
    /\ TwoExpCheck(org.g1, org.y1, org.g2, org.y2, org.x1, org.x2, org.c, z)
    /\ DLEQVerify(cred.t1, G, keys.h1, cred.AToGamma, cred.BToGamma)
    /\ DLEQVerify(cred.t2, G, keys.h2, cred.SmallBToGamma, cred.AToGamma)

\* ------------------------------------------------------------------------
\* Messages: a tagged union; absent byte fields are the empty string
\* ------------------------------------------------------------------------
NoMsg == [tag |-> "none", f |-> [none |-> << >>], perr |-> ""]

Msg(tag, f) == [tag |-> tag, f |-> f, perr |-> ""]

MsgErr(tag, f, e) == [tag |-> tag, f |-> f, perr |-> e]

StatusMsg(b) == Msg("Status", [Success |-> b])

\* the exponent z carried by a client response
ZOf(m) == IF m.tag = "SchnorrProofData" THEN SetBytes(m.f.Z)
          ELSE SetBytes(m.f.X1)

\* ------------------------------------------------------------------------
\* Clients (provers)
\* ------------------------------------------------------------------------
\* the user's master secret and commitment nonce
User == [m |-> 5, r |-> 3, k |-> 2]

\* pseudonym generation: nym (2, 2^m), blinded nym (4, 4^m)
NymGenRequest(sigValid) ==
    LET nymA == G
        nymB == ModExp(G, User.m, P)
        blA == 4
        blB == ModExp(4, User.m, P)
        sig == CASign(nymA, nymB, User.k)
    IN Msg("PseudonymsysNymGenProofRandomData",
           [X1 |-> Bytes(ModExp(nymA, User.r, P)), A1 |-> Bytes(nymA),
            B1 |-> Bytes(nymB),
            X2 |-> Bytes(ModExp(blA, User.r, P)), A2 |-> Bytes(blA),
            B2 |-> Bytes(blB),
            R |-> Bytes(IF sigValid THEN sig.r ELSE sig.r + 1),
            S |-> Bytes(IF sigValid THEN sig.s ELSE sig.s + 1)])

\* the happy-path request of the toy group written out: nym (2, 9),
\* blinded nym (4, blindedB), commitments (2^3, 4^3) = (8, 18), and the CA's
\* signature on the nym
Scenario1Request(blindedB) ==
    Msg("PseudonymsysNymGenProofRandomData",
        [X1 |-> <<8>>, A1 |-> <<2>>, B1 |-> <<9>>,
         X2 |-> <<18>>, A2 |-> <<4>>, B2 |-> <<blindedB>>,
         R |-> Bytes(CASign(2, 9, User.k).r),
         S |-> Bytes(CASign(2, 9, User.k).s)])

NymGenRequests ==
    {NymGenRequest(v) : v \in BOOLEAN} \cup {Scenario1Request(1)}

\* the response an honest prover gives to challenge c
HonestZ(c) == (User.r + c * User.m) % Q

\* a message of a variant no round of any handler expects from the client
OutOfOrderMsg == Msg("Status", [Success |-> TRUE])

\* what a client may send where SchnorrProofData is expected
SchnorrProofDataMsgs ==
    {Msg("SchnorrProofData", [Z |-> Bytes(z)]) : z \in 0 .. MaxZ}
        \cup {OutOfOrderMsg}

\* what a client may send where BigInt is expected
BigintMsgs ==
    {Msg("Bigint", [X1 |-> Bytes(z)]) : z \in 0 .. MaxZ} \cup {OutOfOrderMsg}

\* what a client may send where DoubleBigInt is expected
DoubleBigintMsgs ==
    {Msg("DoubleBigint", [X1 |-> Bytes(c1), X2 |-> Bytes(c2)]) :
        c1 \in 0 .. MaxChal, c2 \in 0 .. MaxChal} \cup {OutOfOrderMsg}

\* credential issuance: Schnorr first move for the nym (g, g^m)
IssueRequest ==
    Msg("SchnorrProofRandomData",
        [X |-> Bytes(ModExp(G, User.r, P)), A |-> Bytes(G),
         B |-> Bytes(ModExp(G, User.m, P))])

\* integer values a client may put in the fields of an initial request
\* without following the protocol: zero (no bytes) and a value above p
ArbitraryValues == {0, P + 7}

\* an issuance request of the expected variant with arbitrary field values:
\* commitment x, and w for both elements of the nym
ArbitraryIssueRequest(x, w) ==
    Msg("SchnorrProofRandomData",
        [X |-> Bytes(x), A |-> Bytes(w), B |-> Bytes(w)])

ArbitraryIssueRequests ==
    {ArbitraryIssueRequest(x, P + 7) : x \in ArbitraryValues}

IssueRequests == {IssueRequest} \cup ArbitraryIssueRequests

\* the credential organization issuer gave on the nym (g, g^m), randomized
\* by gamma, with its two DL-EQ transcripts
IssuedCredential(issuer, gamma, forged) ==
    LET sec == LoadPseudonymsysOrgSecrets(issuer)
        keys == LoadPseudonymsysOrgPubKeys(issuer)
        a == G
        b == ModExp(G, User.m, P)
        A == ModExp(b, sec.s2, P)
        B == ModExp(A, sec.s1, P)
        aG == ModExp(a, gamma, P)
        bG == ModExp(b, gamma, P)
        AG == ModExp(A, gamma, P)
        BG == ModExp(B, gamma, P)
        t1 == DLEQProve(G, keys.h1, AG, BG, sec.s1, 2)
        t2 == DLEQProve(G, keys.h2, bG, AG, sec.s2, 3)
        enc(t, bad) == [A |-> Bytes(t.A), B |-> Bytes(t.B),
                        Hash |-> Bytes(t.Hash),
                        ZAlpha |-> Bytes(IF bad THEN (t.ZAlpha + 1) % Q
                                                ELSE t.ZAlpha)]
    IN [SmallAToGamma |-> Bytes(aG), SmallBToGamma |-> Bytes(bG),
        AToGamma |-> Bytes(AG), BToGamma |-> Bytes(BG),
        T1 |-> enc(t1, forged), T2 |-> enc(t2, FALSE)]

\* credential transfer to the nym (3, 3^m) held at the verifier
TransferRequest(issuer, orgName, gamma, forged) ==
    LET cred == IssuedCredential(issuer, gamma, forged)
        nymA == 3
    IN Msg("PseudonymsysTransferCredentialData",
           [OrgName |-> orgName,
            X1 |-> Bytes(ModExp(nymA, User.r, P)),
            X2 |-> Bytes(ModExp(SetBytes(cred.SmallAToGamma), User.r, P)),
            NymA |-> Bytes(nymA), NymB |-> Bytes(ModExp(nymA, User.m, P)),
            Credential |-> cred])

\* a transfer request of the expected variant with arbitrary field values
ArbitraryTransferRequest(v) ==
    LET t == [A |-> Bytes(v), B |-> Bytes(v), Hash |-> Bytes(v),
              ZAlpha |-> Bytes(v)]
    IN Msg("PseudonymsysTransferCredentialData",
           [OrgName |-> "org1", X1 |-> Bytes(v), X2 |-> Bytes(v),
            NymA |-> Bytes(v), NymB |-> Bytes(v),
            Credential |-> [SmallAToGamma |-> Bytes(v),
                            SmallBToGamma |-> Bytes(v),
                            AToGamma |-> Bytes(v), BToGamma |-> Bytes(v),
                            T1 |-> t, T2 |-> t]])

\* the Credential field of a request that carries no credential
\* sub-message (a nil pointer after decoding)
NilCredential == [nil |-> TRUE]

\* a transfer request of the expected variant without its credential
TransferRequestNoCredential ==
    Msg("PseudonymsysTransferCredentialData",
        [OrgName |-> "org1", X1 |-> Bytes(1), X2 |-> Bytes(1),
         NymA |-> Bytes(1), NymB |-> Bytes(1), Credential |-> NilCredential])

TransferRequests ==
    {TransferRequest(i, n, gm, fg) :
        i \in OrgNames, n \in OrgNames, gm \in 1 .. MaxCredGamma,
        fg \in BOOLEAN}
        \cup {ArbitraryTransferRequest(v) : v \in ArbitraryValues}
        \cup {TransferRequestNoCredential}

Handlers == {"nymgen", "issue", "transfer"}

InitialRequests(h) ==
    CASE h = "nymgen" -> NymGenRequests
      [] h = "issue" -> IssueRequests
      [] h = "transfer" -> TransferRequests

\* ------------------------------------------------------------------------
\* State of one session
\* ------------------------------------------------------------------------
VARIABLES
    handler,    \* which of the three handlers runs
    pc,         \* position of the handler in its code
    req,        \* the request being processed (argument, then last received)
    resp,       \* the response built for the next send
    org,        \* the role object of the session
    loc,        \* other locals that live across a send or receive
    ret,        \* "running", or how the handler ended: "nil", "transport", "panic"
    trace,      \* the initial request, then the stream operations and
                \* role calls made so far
    other       \* the locals of a second handler invocation that runs
                \* concurrently and is not scheduled now, if there is one

vars == <<handler, pc, req, resp, org, loc, ret, trace, other>>

Event(op, name, ok, msg) == [op |-> op, name |-> name, ok |-> ok, msg |-> msg]

NoRole == [kind |-> "none", seeded |-> FALSE]

NoLoc == [orgName |-> "", cred |-> [none |-> 0]]

\* no second invocation
NoSession ==
    [handler |-> "none", pc |-> "none", req |-> NoMsg, resp |-> NoMsg,
     org |-> NoRole, loc |-> NoLoc, ret |-> "none", trace |-> << >>]

Concurrent == other.pc # "none"

\* the messages a client is taken to choose from: all of msgs in a lone
\* session; with two sessions only in-order responses with z <= MaxConcZ
ClientMoves(msgs) ==
    IF ~Concurrent THEN msgs
    ELSE {m \in msgs : m.tag \in {"SchnorrProofData", "Bigint"}
                          /\ ZOf(m) <= MaxConcZ}

Init ==
    /\ other = NoSession
    /\ handler \in Handlers
    /\ req \in InitialRequests(handler)
    /\ pc = "start"
    /\ resp = NoMsg
    /\ org = NoRole
    /\ loc = NoLoc
    /\ ret = "running"
    /\ trace = <<Event("init", req.tag, TRUE, req)>>

\* ------------------------------------------------------------------------
\* The stream wrappers s.send and s.receive, and run-time panics
\* ------------------------------------------------------------------------
\* s.send(resp, stream) returned nil: the handler goes on at next
SendOk(next) ==
    /\ trace' = Append(trace, Event("send", resp.tag, TRUE, resp))
    /\ pc' = next
    /\ ret' = IF next = "done" THEN "nil" ELSE ret
    /\ UNCHANGED <<other, handler, req, resp, org, loc>>

\* s.send(resp, stream) returned an error: the handler returns it
SendFail ==
    /\ trace' = Append(trace, Event("send", resp.tag, FALSE, resp))
    /\ pc' = "done"
    /\ ret' = "transport"
    /\ UNCHANGED <<other, handler, req, resp, org, loc>>

\* s.receive(stream) returned a message
RecvOk(msgs, next) ==
    \E m \in ClientMoves(msgs) :
        /\ req' = m
        /\ trace' = Append(trace, Event("recv", m.tag, TRUE, m))
        /\ pc' = next
        /\ UNCHANGED <<other, handler, resp, org, loc, ret>>

\* s.receive(stream) returned an error (disconnect, deadline)
RecvFail ==
    /\ trace' = Append(trace, Event("recv", "none", FALSE, NoMsg))
    /\ pc' = "done"
    /\ ret' = "transport"
    /\ UNCHANGED <<other, handler, req, resp, org, loc>>

\* a nil dereference: the handler neither replies nor returns
Panic(name) ==
    /\ trace' = Append(trace, Event("panic", name, FALSE, NoMsg))
    /\ pc' = "done"
    /\ ret' = "panic"
    /\ UNCHANGED <<other, handler, req, resp, org, loc>>

\* ------------------------------------------------------------------------
\* PseudonymsysGenerateNym
\* ------------------------------------------------------------------------
\* variant of NymGenChallengeReply that forgets to set ProtocolError
NymGenChallengeReplyNoError(ok, challenge) ==
    IF ~ok
    THEN Msg("PedersenDecommitment", [X |-> << >>])
    ELSE Msg("PedersenDecommitment", [X |-> Bytes(challenge)])

\* variant of NymGenChallengeReply that reports the error in a Status
NymGenChallengeReplyStatusOnError(ok, challenge) ==
    IF ~ok
    THEN MsgErr("Status", [Success |-> FALSE], "INVALID_CA_SIGNATURE")
    ELSE Msg("PedersenDecommitment", [X |-> Bytes(challenge)])

\* the PedersenDecommitment reply: the challenge, or empty with the error
NymGenChallengeReply(ok, challenge) ==
    IF ~ok
    THEN MsgErr("PedersenDecommitment", [X |-> << >>], "INVALID_CA_SIGNATURE")
    ELSE Msg("PedersenDecommitment", [X |-> Bytes(challenge)])

\* variant of NymGenStatusReply that drops the verdict
NymGenStatusReplyDropsVerdict(valid) == StatusMsg(FALSE)

\* variant of NymGenStatusReply that inverts the verdict
NymGenStatusReplyInverted(valid) == StatusMsg(~valid)

\* the Status reply of nym generation
NymGenStatusReply(valid) == StatusMsg(valid)

\* construction of the role, decoding of the request, GetChallenge and the
\* PedersenDecommitment reply
NymGenRound1 ==
    /\ handler = "nymgen" /\ pc = "start"
    /\ IF req.tag # "PseudonymsysNymGenProofRandomData"
       THEN Panic("GetPseudonymsysNymGenProofRandomData")
       ELSE LET o == NewOrgNymGen(LoadPseudonymsysCAPubKey)
                x1 == SetBytes(req.f.X1)
                nymA == SetBytes(req.f.A1)
                nymB == SetBytes(req.f.B1)
                x2 == SetBytes(req.f.X2)
                blindedA == SetBytes(req.f.A2)
                blindedB == SetBytes(req.f.B2)
                signatureR == SetBytes(req.f.R)
                signatureS == SetBytes(req.f.S)
            IN /\ \/ /\ ~NymGenSignatureValid(o, nymA, nymB, signatureR, signatureS)
                     /\ org' = o
                     /\ resp' = NymGenChallengeReply(FALSE, 0)
                     /\ trace' = Append(trace, Event("call", "GetChallenge", FALSE, NoMsg))
                  \/ /\ NymGenSignatureValid(o, nymA, nymB, signatureR, signatureS)
                     /\ \E challenge \in Zq :
                          /\ org' = NymGenGetChallenge(o, nymA, blindedA, nymB,
                                                       blindedB, x1, x2, challenge)
                          /\ resp' = NymGenChallengeReply(TRUE, challenge)
                     /\ trace' = Append(trace, Event("call", "GetChallenge", TRUE, NoMsg))
               /\ pc' = "send1"
               /\ UNCHANGED <<other, handler, req, loc, ret>>

\* variant of NymGenSend1 that ignores the error of s.send
NymGenSend1IgnoresError ==
    /\ handler = "nymgen" /\ pc = "send1"
    /\ \/ SendOk("recv1")
       \/ /\ trace' = Append(trace, Event("send", resp.tag, FALSE, resp))
          /\ pc' = "recv1"
          /\ UNCHANGED <<other, handler, req, resp, org, loc, ret>>

NymGenSend1 ==
    /\ handler = "nymgen" /\ pc = "send1"
    /\ \/ SendOk("recv1")
       \/ SendFail

\* variant of NymGenReceive that calls s.receive again after an error
\* instead of returning it
NymGenReceiveRetries ==
    /\ handler = "nymgen" /\ pc = "recv1"
    /\ \/ RecvOk(SchnorrProofDataMsgs, "round2")
       \/ /\ trace' = Append(trace, Event("recv", "none", FALSE, NoMsg))
          /\ UNCHANGED <<other, handler, pc, req, resp, org, loc, ret>>

NymGenReceive ==
    /\ handler = "nymgen" /\ pc = "recv1"
    /\ \/ RecvOk(SchnorrProofDataMsgs, "round2")
       \/ RecvFail

\* variant of NymGenRound2 with the role kept in a field of the server: it
\* verifies against the role the other running invocation stored last
NymGenRound2SharedRole ==
    /\ handler = "nymgen" /\ pc = "round2"
    /\ IF req.tag # "SchnorrProofData"
       THEN Panic("GetSchnorrProofData")
       ELSE LET z == SetBytes(req.f.Z)
                o == IF other.org.kind = "NymGen" THEN other.org ELSE org
            IN \E out \in NymGenVerifyOutcomes(o, z) :
                 IF out = "panic"
                 THEN Panic("Verify")
                 ELSE /\ resp' = NymGenStatusReply(out = "true")
                      /\ trace' = Append(trace, Event("call", "Verify", TRUE, NoMsg))
                      /\ pc' = "send2"
                      /\ UNCHANGED <<other, handler, req, org, loc, ret>>

\* decoding of z, Verify and the Status reply
NymGenRound2 ==
    /\ handler = "nymgen" /\ pc = "round2"
    /\ IF req.tag # "SchnorrProofData"
       THEN Panic("GetSchnorrProofData")
       ELSE LET z == SetBytes(req.f.Z)
            IN \E out \in NymGenVerifyOutcomes(org, z) :
                 IF out = "panic"
                 THEN Panic("Verify")
                 ELSE /\ resp' = NymGenStatusReply(out = "true")
                      /\ trace' = Append(trace, Event("call", "Verify", TRUE, NoMsg))
                      /\ pc' = "send2"
                      /\ UNCHANGED <<other, handler, req, org, loc, ret>>

NymGenSend2 ==
    /\ handler = "nymgen" /\ pc = "send2"
    /\ \/ SendOk("done")
       \/ SendFail

\* ------------------------------------------------------------------------
\* PseudonymsysIssueCredential
\* ------------------------------------------------------------------------
\* construction of the role, decoding of (x, a, b), the challenge and the
\* BigInt reply
IssueRound1 ==
    /\ handler = "issue" /\ pc = "start"
    /\ IF req.tag # "SchnorrProofRandomData"
       THEN Panic("GetSchnorrProofRandomData")
       ELSE LET sec == LoadPseudonymsysOrgSecrets("org1")
                o == NewOrgCredentialIssuer(sec.s1, sec.s2)
                x == SetBytes(req.f.X)
                a == SetBytes(req.f.A)
                b == SetBytes(req.f.B)
            IN /\ \E challenge \in Zq :
                    /\ org' = IssuerGetAuthenticationChallenge(o, a, b, x, challenge)
                    /\ resp' = Msg("Bigint", [X1 |-> Bytes(challenge)])
               /\ trace' = Append(trace,
                      Event("call", "GetAuthenticationChallenge", TRUE, NoMsg))
               /\ pc' = "send1"
               /\ UNCHANGED <<other, handler, req, loc, ret>>

IssueSend1 ==
    /\ handler = "issue" /\ pc = "send1"
    /\ \/ SendOk("recv1")
       \/ SendFail

IssueReceive1 ==
    /\ handler = "issue" /\ pc = "recv1"
    /\ \/ RecvOk(BigintMsgs, "round2")
       \/ RecvFail

\* the PseudonymsysIssueProofRandomData reply: the issued elements, or
\* empty with the error
IssueProofRandomDataReply(ok, e) ==
    IF ~ok
    THEN MsgErr("PseudonymsysIssueProofRandomData",
                [X11 |-> << >>, X12 |-> << >>, X21 |-> << >>, X22 |-> << >>,
                 A |-> << >>, B |-> << >>], "AUTH_FAILED")
    ELSE Msg("PseudonymsysIssueProofRandomData",
             [X11 |-> Bytes(e.x11), X12 |-> Bytes(e.x12),
              X21 |-> Bytes(e.x21), X22 |-> Bytes(e.x22),
              A |-> Bytes(e.A), B |-> Bytes(e.B)])

\* decoding of z, VerifyAuthentication and the
\* PseudonymsysIssueProofRandomData reply
IssueRound2 ==
    /\ handler = "issue" /\ pc = "round2"
    /\ IF req.tag # "Bigint"
       THEN Panic("GetBigint")
       ELSE LET z == SetBytes(req.f.X1)
            IN /\ \/ /\ ~IssuerAuthenticated(org, z)
                     /\ org' = org
                     /\ resp' = IssueProofRandomDataReply(FALSE,
                                    IssuerIssue(org, 0, 0, 0))
                     /\ trace' = Append(trace,
                            Event("call", "VerifyAuthentication", FALSE, NoMsg))
                  \/ /\ IssuerAuthenticated(org, z)
                     /\ \E r1 \in 0 .. MaxR, gamma1 \in 0 .. MaxGamma,
                           gamma2 \in 0 .. MaxGamma :
                          /\ org' = [org EXCEPT !.issued = TRUE,
                                                !.gamma1 = gamma1,
                                                !.gamma2 = gamma2]
                          /\ resp' = IssueProofRandomDataReply(TRUE,
                                         IssuerIssue(org, r1, gamma1, gamma2))
                     /\ trace' = Append(trace,
                            Event("call", "VerifyAuthentication", TRUE, NoMsg))
               /\ pc' = "send2"
               /\ UNCHANGED <<other, handler, req, loc, ret>>

\* variant of IssueSend2 that goes on to the last send without a receive
IssueSend2SkipsReceive ==
    /\ handler = "issue" /\ pc = "send2"
    /\ \/ SendOk("send3")
       \/ SendFail

IssueSend2 ==
    /\ handler = "issue" /\ pc = "send2"
    /\ \/ SendOk("recv2")
       \/ SendFail

IssueReceive2 ==
    /\ handler = "issue" /\ pc = "recv2"
    /\ \/ RecvOk(DoubleBigintMsgs, "round3")
       \/ RecvFail

\* variant of IssueEqualityProofReply with the two fields exchanged
IssueEqualityProofReplySwapped(z1, z2) ==
    Msg("DoubleBigint", [X1 |-> Bytes(z2), X2 |-> Bytes(z1)])

\* the DoubleBigInt reply of issuance round 3
IssueEqualityProofReply(z1, z2) ==
    Msg("DoubleBigint", [X1 |-> Bytes(z1), X2 |-> Bytes(z2)])

\* decoding of (c1, c2), GetEqualityProofData and the DoubleBigInt reply
IssueRound3 ==
    /\ handler = "issue" /\ pc = "round3"
    /\ IF req.tag # "DoubleBigint"
       THEN Panic("GetDoubleBigint")
       ELSE LET challenge1 == SetBytes(req.f.X1)
                challenge2 == SetBytes(req.f.X2)
            IN \E zs \in IssuerEqualityProofOutcomes(org, challenge1, challenge2) :
                 IF zs.panic
                 THEN Panic("GetEqualityProofData")
                 ELSE /\ resp' = IssueEqualityProofReply(zs.z1, zs.z2)
                      /\ trace' = Append(trace,
                             Event("call", "GetEqualityProofData", TRUE, NoMsg))
                      /\ pc' = "send3"
                      /\ UNCHANGED <<other, handler, req, org, loc, ret>>

IssueSend3 ==
    /\ handler = "issue" /\ pc = "send3"
    /\ \/ SendOk("done")
       \/ SendFail

\* ------------------------------------------------------------------------
\* PseudonymsysTransferCredential
\* ------------------------------------------------------------------------
\* pseudonymsys.NewCredential over the decoded fields
NewCredential(c) ==
    [SmallAToGamma |-> SetBytes(c.SmallAToGamma),
     SmallBToGamma |-> SetBytes(c.SmallBToGamma),
     AToGamma |-> SetBytes(c.AToGamma),
     BToGamma |-> SetBytes(c.BToGamma),
     t1 |-> <<SetBytes(c.T1.A), SetBytes(c.T1.B), SetBytes(c.T1.Hash),
              SetBytes(c.T1.ZAlpha)>>,
     t2 |-> <<SetBytes(c.T2.A), SetBytes(c.T2.B), SetBytes(c.T2.Hash),
              SetBytes(c.T2.ZAlpha)>>]

\* construction of the role, decoding of the request and the credential,
\* the challenge and the BigInt reply
TransferRound1 ==
    /\ handler = "transfer" /\ pc = "start"
    /\ IF req.tag # "PseudonymsysTransferCredentialData"
       THEN Panic("GetPseudonymsysTransferCredentialData")
       ELSE IF req.f.Credential = NilCredential
       THEN Panic("Credential.T1")
       ELSE LET sec == LoadPseudonymsysOrgSecrets("org1")
                o == NewOrgCredentialVerifier(sec.s1, sec.s2)
                orgName == req.f.OrgName
                x1 == SetBytes(req.f.X1)
                x2 == SetBytes(req.f.X2)
                nymA == SetBytes(req.f.NymA)
                nymB == SetBytes(req.f.NymB)
                credential == NewCredential(req.f.Credential)
            IN /\ \E challenge \in Zq :
                    /\ org' = VerifierGetAuthenticationChallenge(o, nymA, nymB,
                                  credential.SmallAToGamma,
                                  credential.SmallBToGamma, x1, x2, challenge)
                    /\ resp' = Msg("Bigint", [X1 |-> Bytes(challenge)])
               /\ loc' = [orgName |-> orgName, cred |-> credential]
               /\ trace' = Append(trace,
                      Event("call", "GetAuthenticationChallenge", TRUE, NoMsg))
               /\ pc' = "send1"
               /\ UNCHANGED <<other, handler, req, ret>>

\* variant of TransferSend1 that returns nil after the first reply
TransferSend1ReturnsEarly ==
    /\ handler = "transfer" /\ pc = "send1"
    /\ \/ SendOk("done")
       \/ SendFail

TransferSend1 ==
    /\ handler = "transfer" /\ pc = "send1"
    /\ \/ SendOk("recv1")
       \/ SendFail

TransferReceive ==
    /\ handler = "transfer" /\ pc = "recv1"
    /\ \/ RecvOk(BigintMsgs, "round2")
       \/ RecvFail

\* variant of TransferOrgPubKeys that loads the keys of "org1", as the
\* secrets are
TransferOrgPubKeysOfOrg1(orgName) == LoadPseudonymsysOrgPubKeys("org1")

\* public keys of the organization that issued the credential
TransferOrgPubKeys(orgName) == LoadPseudonymsysOrgPubKeys(orgName)

\* variant of TransferStatusReply that sets ProtocolError on a rejection
TransferStatusReplyWithError(verified) ==
    IF verified THEN StatusMsg(TRUE)
    ELSE MsgErr("Status", [Success |-> FALSE], "NOT_VERIFIED")

\* the Status reply of credential transfer
TransferStatusReply(verified) == StatusMsg(verified)

\* loading of the issuer's public keys by org_name, decoding of z,
\* VerifyAuthentication and the Status reply
TransferRound2 ==
    /\ handler = "transfer" /\ pc = "round2"
    /\ LET orgPubKeys == TransferOrgPubKeys(loc.orgName)
       IN IF req.tag # "Bigint"
          THEN Panic("GetBigint")
          ELSE LET z == SetBytes(req.f.X1)
                   verified == VerifierVerifyAuthentication(org, z, loc.cred,
                                                            orgPubKeys)
               IN /\ resp' = TransferStatusReply(verified)
                  /\ trace' = Append(trace,
                         Event("call", "VerifyAuthentication", TRUE, NoMsg))
                  /\ pc' = "send2"
                  /\ UNCHANGED <<other, handler, req, org, loc, ret>>

TransferSend2 ==
    /\ handler = "transfer" /\ pc = "send2"
    /\ \/ SendOk("done")
       \/ SendFail

Next ==
    \/ NymGenRound1
    \/ NymGenSend1
    \/ NymGenReceive
    \/ NymGenRound2
    \/ NymGenSend2
    \/ IssueRound1
    \/ IssueSend1
    \/ IssueReceive1
    \/ IssueRound2
    \/ IssueSend2
    \/ IssueReceive2
    \/ IssueRound3
    \/ IssueSend3
    \/ TransferRound1
    \/ TransferSend1
    \/ TransferReceive
    \/ TransferRound2
    \/ TransferSend2

Spec == Init /\ [][Next]_vars

\* the handler is sequential code and every s.send and s.receive returns:
\* a step that is possible is eventually taken
FairSpec == Init /\ [][Next]_vars /\ WF_vars(Next)

\* ------------------------------------------------------------------------
\* Two handler invocations at a time (one goroutine per stream)
\* ------------------------------------------------------------------------
\* the locals of the invocation that is scheduled now
Running ==
    [handler |-> handler, pc |-> pc, req |-> req, resp |-> resp,
     org |-> org, loc |-> loc, ret |-> ret, trace |-> trace]

ConcHandlers == {"nymgen", "transfer"}

ConcRequests(h) ==
    IF h = "nymgen" THEN {NymGenRequest(v) : v \in BOOLEAN}
    ELSE {TransferRequest("org1", n, 1, FALSE) : n \in OrgNames}

\* the locals of a handler invocation at its entry
Entry(h, m) ==
    [handler |-> h, pc |-> "start", req |-> m, resp |-> NoMsg,
     org |-> NoRole, loc |-> NoLoc, ret |-> "running",
     trace |-> <<Event("init", m.tag, TRUE, m)>>]

ConcInit ==
    /\ \E h \in ConcHandlers : \E m \in ConcRequests(h) :
          /\ handler = h
          /\ req = m
          /\ trace = <<Event("init", m.tag, TRUE, m)>>
    /\ pc = "start"
    /\ resp = NoMsg
    /\ org = NoRole
    /\ loc = NoLoc
    /\ ret = "running"
    /\ \E h \in ConcHandlers : \E m \in ConcRequests(h) :
          other = Entry(h, m)

\* the scheduler runs the other invocation: each keeps its own locals
Switch ==
    /\ Concurrent
    /\ other' = Running
    /\ handler' = other.handler
    /\ pc' = other.pc
    /\ req' = other.req
    /\ resp' = other.resp
    /\ org' = other.org
    /\ loc' = other.loc
    /\ ret' = other.ret
    /\ trace' = other.trace

\* a handler returned and the next stream of the worker is served
NewSession ==
    /\ Concurrent
    /\ pc = "done"
    /\ \E h \in ConcHandlers : \E m \in ConcRequests(h) :
          /\ handler' = h
          /\ req' = m
          /\ trace' = <<Event("init", m.tag, TRUE, m)>>
    /\ pc' = "start"
    /\ resp' = NoMsg
    /\ org' = NoRole
    /\ loc' = NoLoc
    /\ ret' = "running"
    /\ UNCHANGED other

ConcNext ==
    \/ NymGenRound1
    \/ NymGenSend1
    \/ NymGenReceive
    \/ NymGenRound2
    \/ NymGenSend2
    \/ TransferRound1
    \/ TransferSend1
    \/ TransferReceive
    \/ TransferRound2
    \/ TransferSend2
    \/ Switch
    \/ NewSession

ConcSpec == ConcInit /\ [][ConcNext]_vars

\* ------------------------------------------------------------------------
\* Observations on a session
\* ------------------------------------------------------------------------
Idx == 1 .. Len(trace)

IsStreamOp(e) == e.op \in {"send", "recv"}

\* the sends and receives of the session, in order
StreamOps == SelectSeq(trace, IsStreamOp)

\* the events of the replies the client got
SentEvents == SelectSeq(trace, LAMBDA e : e.op = "send" /\ e.ok)

\* the replies the client got
Sent == [k \in 1 .. Len(SentEvents) |-> SentEvents[k].msg]

TransportFailed == \E i \in Idx : IsStreamOp(trace[i]) /\ ~trace[i].ok

IsStatus(m, b) == m.tag = "Status" /\ m.f.Success = b

SentStatus(b) == \E i \in Idx :
    trace[i].op = "send" /\ trace[i].ok /\ IsStatus(trace[i].msg, b)

\* no challenge and no issued element in a reply
PayloadEmpty(m) ==
    CASE m.tag = "PedersenDecommitment" -> m.f.X = << >>
      [] m.tag = "Bigint" -> m.f.X1 = << >>
      [] m.tag = "DoubleBigint" -> m.f.X1 = << >> /\ m.f.X2 = << >>
      [] m.tag = "PseudonymsysIssueProofRandomData" ->
            /\ m.f.X11 = << >> /\ m.f.X12 = << >> /\ m.f.X21 = << >>
            /\ m.f.X22 = << >> /\ m.f.A = << >> /\ m.f.B = << >>
      [] OTHER -> TRUE

\* the variant the handler replies with in its k-th turn
ReplyTag(h, k) ==
    CASE h = "nymgen" -> IF k = 1 THEN "PedersenDecommitment" ELSE "Status"
      [] h = "issue" -> IF k = 1 THEN "Bigint"
                        ELSE IF k = 2 THEN "PseudonymsysIssueProofRandomData"
                        ELSE "DoubleBigint"
      [] h = "transfer" -> IF k = 1 THEN "Bigint" ELSE "Status"

\* the variant the handler expects in its k-th receive
RequestTag(h, k) ==
    CASE h = "nymgen" -> "SchnorrProofData"
      [] h = "issue" -> IF k = 1 THEN "Bigint" ELSE "DoubleBigint"
      [] h = "transfer" -> "Bigint"

\* number of receives among the first i events
RECURSIVE RecvCount(_)
RecvCount(i) ==
    IF i = 0 THEN 0
    ELSE RecvCount(i - 1) + (IF trace[i].op = "recv" THEN 1 ELSE 0)

\* number of sends among the first i events
RECURSIVE SendCount(_)
SendCount(i) ==
    IF i = 0 THEN 0
    ELSE SendCount(i - 1) + (IF trace[i].op = "send" THEN 1 ELSE 0)

\* whether the seeded role of the session accepts the response z (for
\* transfer: together with the transcripts of the presented credential)
ResponseAccepted(z) ==
    CASE handler = "nymgen" -> NymGenVerify(org, z)
      [] handler = "issue" -> IssuerAuthenticated(org, z)
      [] handler = "transfer" ->
            VerifierVerifyAuthentication(org, z, loc.cred,
                LoadPseudonymsysOrgPubKeys(loc.orgName))

\* the role rejected in the call recorded at event i
RoleError(i) == trace[i].op = "call" /\ ~trace[i].ok

\* ------------------------------------------------------------------------
\* Claims
\* ------------------------------------------------------------------------
\* C1: a reply sent with a non-empty protocol_error is the last event of
\* the session: no receive, role call or send follows it, and the handler
\* returns without a transport error.
C1_ErrorReplyIsTerminal ==
    \A i \in Idx :
        (trace[i].op = "send" /\ trace[i].ok /\ trace[i].msg.perr # "")
            => /\ i = Len(trace)
               /\ pc = "done" => ret = "nil"

\* every message received so far is of the variant its round expects
InOrder ==
    \A i \in Idx :
        (trace[i].op = "recv" /\ trace[i].ok)
            => trace[i].msg.tag = RequestTag(handler, RecvCount(i))

\* C2: a session in which the CA signature was rejected, or the response z
\* failed the role's check, or a DL-EQ transcript of the credential is
\* invalid, completes with Status{success=false} or with a terminal
\* protocol_error, and never emits Status{success=true}.  (Stated for
\* sessions whose messages all arrive in order.)
C2_ForgerySeen ==
    \/ \E i \in Idx : RoleError(i) /\ trace[i].name = "GetChallenge"
    \/ \E i \in Idx :
          /\ trace[i].op = "recv" /\ trace[i].ok /\ RecvCount(i) = 1
          /\ trace[i].msg.tag = RequestTag(handler, 1)
          /\ org.seeded
          /\ ~ResponseAccepted(ZOf(trace[i].msg))

C2_ForgeryNeverSucceeds ==
    (C2_ForgerySeen /\ InOrder) =>
        /\ ret # "panic"
        /\ ~SentStatus(TRUE)
        /\ ret = "nil" =>
              LET last == Sent[Len(Sent)]
              IN IsStatus(last, FALSE) \/ last.perr # ""

\* C3: a failed send or receive ends the session at once with that error:
\* no further send, receive or role call, nothing retried.
C3_TransportErrorReturns ==
    \A i \in Idx :
        (IsStreamOp(trace[i]) /\ ~trace[i].ok)
            => /\ i = Len(trace)
               /\ pc = "done"
               /\ ret = "transport"

C3_Witness ==
    /\ Len(trace) >= 5
    /\ trace[Len(trace)].op = "recv"
    /\ ~trace[Len(trace)].ok

\* C4: the stream operations of a session alternate, starting with a send:
\* the k-th send precedes the k-th receive, never two sends or two receives
\* in a row.
C4_SendReceiveAlternate ==
    \A k \in 1 .. Len(StreamOps) :
        StreamOps[k].op = IF k % 2 = 1 THEN "send" ELSE "recv"

C4_Witness ==
    /\ handler = "issue"
    /\ Len(StreamOps) = 5
    /\ ret = "nil"

\* C5: a protocol_error never travels with a payload, and a role error in a
\* non-final turn is answered by the expected variant, empty, with
\* protocol_error set; in particular a rejected CA signature is answered by
\* a PedersenDecommitment without challenge.
C5_ErrorReplyHasNoPayload ==
    /\ \A i \in Idx :
          (trace[i].op = "send" /\ trace[i].msg.perr # "")
              => PayloadEmpty(trace[i].msg)
    /\ \A i \in Idx :
          (RoleError(i) /\ i < Len(trace))
              => /\ trace[i + 1].op = "send"
                 /\ trace[i + 1].msg.tag = ReplyTag(handler, SendCount(i) + 1)
                 /\ trace[i + 1].msg.perr # ""
                 /\ PayloadEmpty(trace[i + 1].msg)
    /\ (RoleError(Len(trace)) /\ pc # "done")
          => /\ resp.tag = ReplyTag(handler, SendCount(Len(trace)) + 1)
             /\ resp.perr # ""
             /\ PayloadEmpty(resp)

C5_Witness ==
    /\ handler = "nymgen"
    /\ Len(Sent) >= 1
    /\ Sent[1].tag = "PedersenDecommitment"
    /\ Sent[1].perr = "INVALID_CA_SIGNATURE"
    /\ Sent[1].f.X = << >>

\* C6: a received message that is not of the variant expected in its round
\* is answered by a terminal reply of the expected variant with
\* protocol_error set; the handler never crashes on it and never goes on
\* with it.  (Absent fields decode to zero and are not rejected either.)
C6_OutOfOrderIsMalformed ==
    \A i \in Idx :
        (/\ trace[i].op = "recv" /\ trace[i].ok
         /\ trace[i].msg.tag # RequestTag(handler, RecvCount(i)))
            => /\ ret # "panic"
               /\ i < Len(trace) =>
                    /\ i + 1 = Len(trace)
                    /\ trace[i + 1].op = "send"
                    /\ trace[i + 1].msg.tag = ReplyTag(handler, SendCount(i) + 1)
                    /\ trace[i + 1].msg.perr # ""

\* C7: a final-round response z >= q is answered by Status{success=false}
\* with protocol_error set, also when z is congruent mod q to a valid
\* response.
C7_OutOfRangeIsMalformed ==
    \A i \in Idx :
        (/\ handler \in {"nymgen", "transfer"}
         /\ trace[i].op = "recv" /\ trace[i].ok
         /\ trace[i].msg.tag = RequestTag(handler, 1)
         /\ ZOf(trace[i].msg) >= Q)
            => \A j \in Idx :
                  (j > i /\ trace[j].op = "send")
                      => /\ IsStatus(trace[j].msg, FALSE)
                         /\ trace[j].msg.perr # ""

\* the initial request of an honest prover with a valid witness
HonestRequest ==
    CASE handler = "nymgen" -> trace[1].msg = NymGenRequest(TRUE)
      [] handler = "issue" -> trace[1].msg = IssueRequest
      [] handler = "transfer" ->
            \E i \in OrgNames, gm \in 1 .. MaxCredGamma :
                trace[1].msg = TransferRequest(i, i, gm, FALSE)

\* every message received so far is the honest prover's move
HonestResponses ==
    \A i \in Idx :
        (trace[i].op = "recv" /\ trace[i].ok)
            => /\ trace[i].msg.tag = RequestTag(handler, RecvCount(i))
               /\ RecvCount(i) = 1 => ZOf(trace[i].msg) = HonestZ(org.c)

HonestSession == HonestRequest /\ HonestResponses

\* C8 as stated: with an honest prover each of the three handlers ends
\* with Status{success=true} as its last message.
C8_HonestProverGetsStatusTrue ==
    (HonestSession /\ pc = "done" /\ ~TransportFailed)
        => /\ ret = "nil"
           /\ IsStatus(Sent[Len(Sent)], TRUE)

\* C8 amended: with an honest prover and a working stream, nym generation
\* and transfer end with Status{success=true}; issuance ends with a
\* DoubleBigInt without protocol_error and sends no Status at all.
C8_HonestProverCompletes ==
    (HonestSession /\ pc = "done" /\ ~TransportFailed)
        => /\ ret = "nil"
           /\ IF handler = "issue"
              THEN /\ Len(Sent) = 3
                   /\ Sent[3].tag = "DoubleBigint"
                   /\ \A k \in 1 .. 3 : Sent[k].perr = "" /\ Sent[k].tag # "Status"
              ELSE /\ Len(Sent) = 2
                   /\ IsStatus(Sent[2], TRUE)
                   /\ Sent[2].perr = ""

C8_Witness ==
    /\ handler = "nymgen"
    /\ HonestSession
    /\ pc = "done"
    /\ ret = "nil"
    /\ ZOf(trace[4].msg) = HonestZ(org.c)
    /\ org.c > 0

\* C9: in a session whose sends and receives all succeed the handler
\* returns nil, whatever the role calls returned.
C9_HandlerReturnsNil ==
    (pc = "done" /\ ~TransportFailed) => ret = "nil"

\* C10: transfer verifies the DL-EQ transcripts against the public keys of
\* the organization named in the request: a credential of org1 presented
\* with org_name = "org2" fails the DL-EQ verifications and gets
\* Status{success=false}; presented by an honest prover under its issuer's
\* name it is accepted.
C10_TransferUsesNamedOrgKeys ==
    (handler = "transfer" /\ pc \in {"send2", "done"} /\ resp.tag = "Status")
        => /\ \A gm \in 1 .. MaxCredGamma, fg \in BOOLEAN :
                trace[1].msg = TransferRequest("org1", "org2", gm, fg)
                    => /\ resp.f.Success = FALSE
                       /\ ~SentStatus(TRUE)
                       /\ ~DLEQVerify(loc.cred.t1, G,
                              LoadPseudonymsysOrgPubKeys("org2").h1,
                              loc.cred.AToGamma, loc.cred.BToGamma)
                       /\ ~DLEQVerify(loc.cred.t2, G,
                              LoadPseudonymsysOrgPubKeys("org2").h2,
                              loc.cred.SmallBToGamma, loc.cred.AToGamma)
           /\ \A i \in OrgNames, n \in OrgNames, gm \in 1 .. MaxCredGamma :
                (/\ trace[1].msg = TransferRequest(i, n, gm, FALSE)
                 /\ req.tag = "Bigint"
                 /\ ZOf(req) = HonestZ(org.c))
                    => resp.f.Success = (i = n)

C10_Witness ==
    /\ handler = "transfer"
    /\ pc = "done" /\ ret = "nil"
    /\ trace[1].msg = TransferRequest("org1", "org2", 1, FALSE)
    /\ ZOf(req) = HonestZ(org.c)
    /\ IsStatus(Sent[2], FALSE)

\* the messages of session s so far: what it received ...
ReceivedIn(s) == SelectSeq(s.trace, LAMBDA e : e.op = "recv" /\ e.ok)

\* ... and the replies it built (sent or not)
RepliesIn(s) == SelectSeq(s.trace, LAMBDA e : e.op = "send")

\* the replies of session s are those its own request, its own responses
\* and its own challenge determine
OwnReplies(s) ==
    LET m0 == s.trace[1].msg
        rcv == ReceivedIn(s)
        rep == RepliesIn(s)
    IN IF s.handler = "nymgen"
       THEN LET ok == CAVerify(LoadPseudonymsysCAPubKey, SetBytes(m0.f.A1),
                               SetBytes(m0.f.B1), SetBytes(m0.f.R),
                               SetBytes(m0.f.S))
                seeded == NymGenGetChallenge(
                              NewOrgNymGen(LoadPseudonymsysCAPubKey),
                              SetBytes(m0.f.A1), SetBytes(m0.f.A2),
                              SetBytes(m0.f.B1), SetBytes(m0.f.B2),
                              SetBytes(m0.f.X1), SetBytes(m0.f.X2),
                              IF Len(rep) >= 1 THEN SetBytes(rep[1].msg.f.X)
                              ELSE 0)
            IN /\ Len(rep) >= 1 =>
                    /\ rep[1].msg.tag = "PedersenDecommitment"
                    /\ (rep[1].msg.perr = "") = ok
               /\ (Len(rep) >= 2 /\ ok) =>
                    rep[2].msg = StatusMsg(NymGenVerify(seeded, ZOf(rcv[1].msg)))
       ELSE LET seeded == VerifierGetAuthenticationChallenge(
                              NewOrgCredentialVerifier(0, 0),
                              SetBytes(m0.f.NymA), SetBytes(m0.f.NymB),
                              SetBytes(m0.f.Credential.SmallAToGamma),
                              SetBytes(m0.f.Credential.SmallBToGamma),
                              SetBytes(m0.f.X1), SetBytes(m0.f.X2),
                              IF Len(rep) >= 1 THEN SetBytes(rep[1].msg.f.X1)
                              ELSE 0)
            IN /\ Len(rep) >= 1 =>
                    rep[1].msg.tag = "Bigint" /\ rep[1].msg.perr = ""
               /\ Len(rep) >= 2 =>
                    rep[2].msg = StatusMsg(VerifierVerifyAuthentication(
                        seeded, ZOf(rcv[1].msg),
                        NewCredential(m0.f.Credential),
                        LoadPseudonymsysOrgPubKeys(m0.f.OrgName)))

\* a session at its entry holds nothing of an earlier session
FreshAtEntry(s) ==
    s.pc = "start" =>
        /\ s.org = NoRole /\ s.resp = NoMsg /\ s.loc = NoLoc
        /\ s.ret = "running" /\ Len(s.trace) = 1

C12_Scenario1Accepted ==
    (/\ handler = "nymgen" /\ trace[1].msg = Scenario1Request(1)
     /\ pc = "send2" /\ ZOf(req) = (3 + 5 * org.c) % 11)
        => resp = StatusMsg(TRUE)

\* C12 amended: the same with blindedB = 4^5 mod 23 = 12: both equations
\* of the two-exponent check hold for every challenge c and the reply is
\* Status{success=true}.
C12_Scenario1WithBlinded12Accepted ==
    (/\ handler = "nymgen" /\ trace[1].msg = Scenario1Request(12)
     /\ pc \in {"send2", "done"} /\ req.tag = "SchnorrProofData"
     /\ ZOf(req) = (3 + 5 * org.c) % 11)
        => /\ org.c \in 0 .. 10
           /\ ModExp(2, ZOf(req), 23) = (8 * ModExp(9, org.c, 23)) % 23
           /\ ModExp(4, ZOf(req), 23) = (18 * ModExp(12, org.c, 23)) % 23
           /\ resp = StatusMsg(TRUE)
           /\ ret = "nil" => Sent[2] = StatusMsg(TRUE)

C12_Witness ==
    /\ handler = "nymgen" /\ trace[1].msg = Scenario1Request(12)
    /\ pc = "done" /\ ret = "nil"
    /\ org.c = 7 /\ ZOf(req) = 5
    /\ Sent[2] = StatusMsg(TRUE)

\* C13: in issuance round 3 the DoubleBigInt reply is exactly
\* (z1, z2) = (gamma1 + c1*s1 mod q, gamma2 + c2*s2 mod q) for the stored
\* gamma1, gamma2, with c1 from X1, c2 from X2 and z1, z2 in X1, X2; with
\* gamma = (4, 7), s = (3, 6), q = 11 and (c1, c2) = (2, 5) it is (10, 4).
C13_EqualityProofData ==
    (/\ handler = "issue" /\ pc \in {"send3", "done"}
     /\ resp.tag = "DoubleBigint" /\ org.issued)
        => LET c1 == SetBytes(req.f.X1)
               c2 == SetBytes(req.f.X2)
               s == LoadPseudonymsysOrgSecrets("org1")
           IN /\ s.s1 = 3 /\ s.s2 = 6
              /\ resp.f.X1 = Bytes((org.gamma1 + c1 * s.s1) % Q)
              /\ resp.f.X2 = Bytes((org.gamma2 + c2 * s.s2) % Q)
              /\ resp.perr = ""
              /\ (org.gamma1 = 4 /\ org.gamma2 = 7 /\ c1 = 2 /\ c2 = 5)
                    => resp.f.X1 = <<10>> /\ resp.f.X2 = <<4>>

C13_Witness ==
    /\ handler = "issue" /\ pc = "done" /\ ret = "nil" /\ org.issued
    /\ org.gamma1 = 4 /\ org.gamma2 = 7
    /\ req = Msg("DoubleBigint", [X1 |-> <<2>>, X2 |-> <<5>>])
    /\ Sent[3] = Msg("DoubleBigint", [X1 |-> <<10>>, X2 |-> <<4>>])

\* C14: issuance serves only an authenticated nym: the issued elements and
\* the response (z1, z2) are sent only after VerifyAuthentication
\* succeeded; after it failed GetEqualityProofData is never called and no
\* DoubleBigInt is sent.
C14_OnlyAuthenticatedNymIsServed ==
    handler = "issue" =>
        /\ \A i \in Idx :
              (/\ trace[i].op = "send"
               /\ \/ trace[i].msg.tag = "DoubleBigint"
                  \/ /\ trace[i].msg.tag = "PseudonymsysIssueProofRandomData"
                     /\ ~PayloadEmpty(trace[i].msg))
                  => \E j \in 1 .. i :
                        /\ trace[j].op = "call" /\ trace[j].ok
                        /\ trace[j].name = "VerifyAuthentication"
        /\ (\E j \in Idx : RoleError(j) /\ trace[j].name = "VerifyAuthentication")
              => \A i \in Idx :
                    /\ trace[i].name # "GetEqualityProofData"
                    /\ ~(trace[i].op = "send" /\ trace[i].msg.tag = "DoubleBigint")

\* number of reply slots of a handler
Slots(h) == IF h = "issue" THEN 3 ELSE 2

\* C15: the k-slot state machine, k = 2 for nym generation and transfer,
\* k = 3 for issuance: no session sends more than k replies, and a session
\* that ends without transport or protocol error has sent exactly k
\* replies and consumed the initial request plus k-1 received moves.
C15_KSlotStateMachine ==
    /\ SendCount(Len(trace)) <= Slots(handler)
    /\ RecvCount(Len(trace)) <= Slots(handler) - 1
    /\ (/\ pc = "done" /\ ret = "nil"
        /\ \A k \in 1 .. Len(Sent) : Sent[k].perr = "")
          => /\ Len(Sent) = Slots(handler)
             /\ RecvCount(Len(trace)) = Slots(handler) - 1
             /\ ~TransportFailed
             /\ trace[1].op = "init"

C15_Witness ==
    /\ handler = "issue" /\ pc = "done" /\ ret = "nil"
    /\ Len(Sent) = 3 /\ RecvCount(Len(trace)) = 2
    /\ \A k \in 1 .. 3 : Sent[k].perr = ""

\* the role methods of the session's role
RoleMethods ==
    {"GetChallenge", "GetAuthenticationChallenge", "Verify",
     "VerifyAuthentication", "GetEqualityProofData"}

\* event i is a call of a role method (returned or panicked)
IsRoleCall(i) == trace[i].op \in {"call", "panic"} /\ trace[i].name \in RoleMethods

\* round of a role method
MethodRound(n) ==
    IF n \in {"GetChallenge", "GetAuthenticationChallenge"} THEN 1
    ELSE IF n \in {"Verify", "VerifyAuthentication"} THEN 2 ELSE 3

\* C16: one fresh role per invocation, used for one interaction: every
\* role method is called at most once, in round order, and a verification
\* method is never called on a role whose challenge step did not complete
\* successfully.
C16_RoleUsedOnceInOrder ==
    /\ pc # "start" => org.kind # "none"
    /\ \A i \in Idx, j \in Idx :
          (IsRoleCall(i) /\ IsRoleCall(j) /\ i < j)
              => MethodRound(trace[i].name) < MethodRound(trace[j].name)
    /\ \A j \in Idx :
          (IsRoleCall(j) /\ MethodRound(trace[j].name) = 2)
              => \E i \in 1 .. j :
                    /\ trace[i].op = "call" /\ trace[i].ok
                    /\ MethodRound(trace[i].name) = 1

C18_ReplyVariantFixedByRound ==
    \A i \in Idx :
        trace[i].op = "send" =>
            /\ trace[i].msg.tag = ReplyTag(handler, SendCount(i))
            /\ trace[i].msg.tag = "Status" =>
                  /\ handler \in {"nymgen", "transfer"}
                  /\ SendCount(i) = 2
                  /\ \A j \in Idx : (j > i) => trace[j].op # "send"

\* an issuance whose round 2 failed has sent its three variants
C18_Witness ==
    /\ handler = "issue" /\ pc = "done" /\ Len(Sent) = 3
    /\ Sent[1].tag = "Bigint"
    /\ Sent[2].tag = "PseudonymsysIssueProofRandomData" /\ Sent[2].perr # ""
    /\ Sent[3].tag = "DoubleBigint"

\* the initial request carries field values no honest client computes
ArbitraryRequest ==
    /\ trace[1].op = "init"
    /\ trace[1].msg \in ArbitraryIssueRequests
           \cup {ArbitraryTransferRequest(v) : v \in ArbitraryValues}

\* the variant a handler expects as its initial request
InitialTag(h) ==
    CASE h = "nymgen" -> "PseudonymsysNymGenProofRandomData"
      [] h = "issue" -> "SchnorrProofRandomData"
      [] h = "transfer" -> "PseudonymsysTransferCredentialData"

\* the initial request has the expected variant and all its fields
WellFormedInitialRequest ==
    /\ trace[1].msg.tag = InitialTag(handler)
    /\ handler = "transfer" => trace[1].msg.f.Credential # NilCredential

====
